---- MODULE Spec2Model ----
(***************************************************************************)
(* Model of clean_file_content.py (VectorCAST test file content cleaner).  *)
(*                                                                         *)
(* A text is a sequence of characters.  A character is a one-character     *)
(* string, except that the three fragments the two marker literals are     *)
(* made of ("TEST.", "END_", "IMPORT_FAILURES:") are each kept as one      *)
(* indivisible element: no marker can begin or end inside a fragment, so   *)
(* matching on fragments is matching on the characters they stand for.     *)
(* Positions are 1-based; a match is reported by the position just after   *)
(* its last element, and NoMatch when the pattern does not match.          *)
(***************************************************************************)
EXTENDS Integers, Sequences, FiniteSets, TLC

\* Bounds of the model.
MaxPieces == 5

NL == "\n"
NoMatch == 0

Max(S) == CHOOSE m \in S : \A n \in S : n <= m
Min(S) == CHOOSE m \in S : \A n \in S : m <= n

---------------------------------------------------------------------------
\* ContentCleaner.__init__ : the two marker literals.
start_pattern == <<"TEST.", "IMPORT_FAILURES:">>
end_pattern == <<"TEST.", "END_", "IMPORT_FAILURES:">>

\* A literal (escaped) pattern matches at position i of s.
LitAt(lit, s, i) ==
    /\ i >= 1
    /\ i + Len(lit) - 1 <= Len(s)
    /\ \A k \in 1..Len(lit) : s[i + k - 1] = lit[k]

\* [\s\S]*? followed by a literal, tried from position j: the lazy
\* quantifier takes no character first and one more after each failure.
RECURSIVE LazyAnyThen(_, _, _)
LazyAnyThen(lit, s, j) ==
    IF j + Len(lit) - 1 > Len(s) THEN NoMatch
    ELSE IF LitAt(lit, s, j) THEN j + Len(lit)
    ELSE LazyAnyThen(lit, s, j + 1)

\* The same with a greedy quantifier ([\s\S]*): the last end marker wins.
GreedyAnyThen(lit, s, j) ==
    LET E == {e \in j..Len(s) : LitAt(lit, s, e)}
    IN  IF E = {} THEN NoMatch ELSE Max(E) + Len(lit)

\* self.full_pattern matched at position i: start literal, lazy any, end.
full_pattern_greedy(s, i) ==
    IF LitAt(start_pattern, s, i)
    THEN GreedyAnyThen(end_pattern, s, i + Len(start_pattern))
    ELSE NoMatch

full_pattern(s, i) ==
    IF LitAt(start_pattern, s, i)
    THEN LazyAnyThen(end_pattern, s, i + Len(start_pattern))
    ELSE NoMatch

\* re.sub(self.full_pattern, "", content): leftmost non-overlapping matches
\* are dropped.  The value is <<text, number of replacements>> from i on.
RECURSIVE SubFullFrom(_, _)
SubFullFrom(s, i) ==
    IF i > Len(s) THEN <<<< >>, 0>>
    ELSE LET e == full_pattern(s, i)
         IN  IF e # NoMatch
             THEN LET r == SubFullFrom(s, e) IN <<r[1], r[2] + 1>>
             ELSE LET r == SubFullFrom(s, i + 1) IN <<<<s[i]>> \o r[1], r[2]>>

\* A substitution that treats the end of the text as an end marker.
RECURSIVE SubFullToEnd(_, _)
SubFullToEnd(s, i) ==
    IF i > Len(s) THEN <<<< >>, 0>>
    ELSE IF LitAt(start_pattern, s, i)
         THEN LET e == full_pattern(s, i)
              IN  IF e # NoMatch
                  THEN LET r == SubFullToEnd(s, e) IN <<r[1], r[2] + 1>>
                  ELSE <<<< >>, 1>>
         ELSE LET r == SubFullToEnd(s, i + 1) IN <<<<s[i]>> \o r[1], r[2]>>

ReSubFull_toEnd(s) == SubFullToEnd(s, 1)

ReSubFull(s) == SubFullFrom(s, 1)

\* re.findall(self.full_pattern, content): the list of matched texts.
RECURSIVE FindallFullFrom(_, _)
FindallFullFrom(s, i) ==
    IF i > Len(s) THEN << >>
    ELSE LET e == full_pattern(s, i)
         IN  IF e # NoMatch
             THEN <<SubSeq(s, i, e - 1)>> \o FindallFullFrom(s, e)
             ELSE FindallFullFrom(s, i + 1)

ReFindallFull(s) == FindallFullFrom(s, 1)

\* The class \s of a str pattern.
IsSpace(c) == c \in {" ", "\t", "\n", "\r", "\f"}

\* Number of consecutive \s characters from position j.
RECURSIVE SpaceRun(_, _)
SpaceRun(s, j) ==
    IF j <= Len(s) /\ IsSpace(s[j]) THEN 1 + SpaceRun(s, j + 1) ELSE 0

\* r'\n\s*\n\s*\n' matched at position i.  Both \s* are greedy: the first
\* takes the longest stretch for which the rest still matches, then the
\* second does.
blank_pattern(s, i) ==
    IF i > Len(s) \/ s[i] # NL THEN NoMatch
    ELSE LET Ends(j) ==
                 {j + k + 1 : k \in {n \in 0..SpaceRun(s, j) :
                                        j + n <= Len(s) /\ s[j + n] = NL}}
             K1 == {k \in 0..SpaceRun(s, i + 1) :
                        /\ i + 1 + k <= Len(s)
                        /\ s[i + 1 + k] = NL
                        /\ Ends(i + 2 + k) # {}}
         IN  IF K1 = {} THEN NoMatch ELSE Max(Ends(i + 2 + Max(K1)))

\* r'\n\n\n' : three adjacent line breaks only.
blank_pattern_plain(s, i) ==
    IF LitAt(<<NL, NL, NL>>, s, i) THEN i + 3 ELSE NoMatch

\* re.sub(r'\n\s*\n\s*\n', '\n\n', cleaned)
RECURSIVE SubBlankFrom(_, _)
SubBlankFrom(s, i) ==
    IF i > Len(s) THEN << >>
    ELSE LET e == blank_pattern(s, i)
         IN  IF e # NoMatch
             THEN <<NL, NL>> \o SubBlankFrom(s, e)
             ELSE <<s[i]>> \o SubBlankFrom(s, i + 1)

RECURSIVE SubBlankPlainFrom(_, _)
SubBlankPlainFrom(s, i) ==
    IF i > Len(s) THEN << >>
    ELSE LET e == blank_pattern_plain(s, i)
         IN  IF e # NoMatch
             THEN <<NL, NL>> \o SubBlankPlainFrom(s, e)
             ELSE <<s[i]>> \o SubBlankPlainFrom(s, i + 1)

ReSubBlank_plain(s) == SubBlankPlainFrom(s, 1)

ReSubBlank(s) == SubBlankFrom(s, 1)

\* ContentCleaner.clean_content
clean_content(c) == ReSubBlank(ReSubFull(c)[1])

\* ContentCleaner.count_blocks
count_blocks_starts(c) ==
    Cardinality({i \in 1..Len(c) : LitAt(start_pattern, c, i)})

count_blocks(c) == Len(ReFindallFull(c))

---------------------------------------------------------------------------
\* Input texts: concatenations of at most MaxPieces pieces, and the examples
\* of the documentation.
Pieces ==
    {start_pattern, end_pattern, <<"TEST.">>, <<"IMPORT_FAILURES:">>,
     <<NL>>, <<" ">>, <<"a">>}

RECURSIVE PieceTexts(_)
PieceTexts(n) ==
    IF n = 0 THEN {<< >>}
    ELSE LET P == PieceTexts(n - 1)
         IN  P \cup {p \o x : p \in P, x \in Pieces}

\* clean_content docstring: "some code\n<start>\nbad code\n<end>\nmore code"
DocExample ==
    <<"s", "o", "m", "e", " ", "c", "o", "d", "e", NL>> \o start_pattern
    \o <<NL, "b", "a", "d", " ", "c", "o", "d", "e", NL>> \o end_pattern
    \o <<NL, "m", "o", "r", "e", " ", "c", "o", "d", "e">>

DocExampleResult ==
    <<"s", "o", "m", "e", " ", "c", "o", "d", "e", NL,
      "m", "o", "r", "e", " ", "c", "o", "d", "e">>

\* "a\n<start>\nbad\n<end>\nb"
LineExample ==
    <<"a", NL>> \o start_pattern \o <<NL, "b", "a", "d", NL>> \o end_pattern
    \o <<NL, "b">>

\* "p <start> q <start> r <end> s"
NestedExample ==
    <<"p", " ">> \o start_pattern \o <<" ", "q", " ">> \o start_pattern
    \o <<" ", "r", " ">> \o end_pattern \o <<" ", "s">>

Examples == {DocExample, LineExample, NestedExample}

Inputs == PieceTexts(MaxPieces) \cup Examples

---------------------------------------------------------------------------
\* File contents are sequences of bytes: the elements of a text stand for
\* their UTF-8 encoding, BadByte for a byte that is not valid UTF-8 and
\* Replacement for the encoding of U+FFFD.
BadByte == "0xFF"
Replacement == "U+FFFD"
CR == "\r"

\* bytes.decode('utf-8', errors='replace')
RECURSIVE DecodeUtf8(_)
DecodeUtf8(b) ==
    IF b = << >> THEN << >>
    ELSE <<IF Head(b) = BadByte THEN Replacement ELSE Head(b)>>
         \o DecodeUtf8(Tail(b))

\* Universal newlines on reading (newline=None): "\r\n" and "\r" -> "\n".
RECURSIVE TranslateNewlines(_)
TranslateNewlines(t) ==
    IF t = << >> THEN << >>
    ELSE IF Head(t) = CR
         THEN IF Len(t) >= 2 /\ t[2] = NL
              THEN <<NL>> \o TranslateNewlines(Tail(Tail(t)))
              ELSE <<NL>> \o TranslateNewlines(Tail(t))
         ELSE <<Head(t)>> \o TranslateNewlines(Tail(t))

\* open(path, 'r', encoding='utf-8', errors='replace').read()
ReadText(b) == TranslateNewlines(DecodeUtf8(b))

\* open(path, 'w', encoding='utf-8').write(text): "\n" -> os.linesep, then
\* UTF-8 (the text holds no surrogate, so encoding cannot fail).
RECURSIVE WriteText(_, _)
WriteText(t, sep) ==
    IF t = << >> THEN << >>
    ELSE (IF Head(t) = NL THEN sep ELSE <<Head(t)>>)
         \o WriteText(Tail(t), sep)

LineSeps == {<<NL>>, <<CR, NL>>}

\* Bounds of the command line.
MaxFiles == 3

Paths == {"a.c", "b.c"}

\* path.with_suffix(path.suffix + '.bak')
BackupPath(p) == p \o ".bak"

AllPaths == Paths \cup {BackupPath(p) : p \in Paths}

NoFile == [kind |-> "none", rw |-> FALSE, data |-> << >>]
RegularFile(d) == [kind |-> "file", rw |-> TRUE, data |-> d]

FileData ==
    { << >>,
      <<"a", NL, NL, NL, "b">>,
      <<BadByte, NL, " ", NL, NL>>,
      LineExample,
      <<"a", CR, NL>> \o start_pattern \o <<CR, NL>> \o end_pattern
          \o <<CR, NL, CR, NL, "b">>,
      <<BadByte>> \o start_pattern \o <<"a">> \o end_pattern \o <<NL>>,
      <<"TEST.">> \o start_pattern \o end_pattern \o <<"IMPORT_FAILURES:">>
          \o end_pattern }

InitialFiles ==
    {NoFile, [kind |-> "dir", rw |-> TRUE, data |-> << >>],
     [kind |-> "file", rw |-> FALSE, data |-> LineExample]}
    \cup {RegularFile(d) : d \in FileData}

RECURSIVE PathLists(_)
PathLists(n) ==
    IF n = 0 THEN {<< >>}
    ELSE LET L == PathLists(n - 1)
         IN  L \cup {Append(l, p) : l \in L, p \in Paths}

\* What the user may type at the prompt of interactive_mode.
Typed == {"q", "Q", ""} \cup Paths

Lower(str) == IF str = "Q" THEN "q" ELSE str

None == "<None>"

\* interactive_mode
interactive_mode(typed) ==
    IF Lower(typed) \in {"q", "quit", "exit"} THEN None
    ELSE IF typed = "" THEN None
    ELSE typed

\* ContentCleaner.validate_file
validate_file(files, p) ==
    /\ files[p].kind # "none"
    /\ files[p].kind = "file"
    /\ files[p].rw

\* clean_multiple_files: the accounting of one result.
RecordResult_successOnly(res, p, ok) ==
    [success |-> res.success + (IF ok THEN 1 ELSE 0),
     failed |-> res.failed,
     files |-> IF ok THEN Append(res.files, [path |-> p, success |-> ok])
               ELSE res.files]

RecordResult(res, p, ok) ==
    [success |-> res.success + (IF ok THEN 1 ELSE 0),
     failed |-> res.failed + (IF ok THEN 0 ELSE 1),
     files |-> Append(res.files, [path |-> p, success |-> ok])]

\* clean_file: what is written to the backup file.
BackupText_cleaned(original) == clean_content(original)

BackupText(original) == original

---------------------------------------------------------------------------
VARIABLES
    content, count, cleaned, deleted, result, again, cpc,
    fs, linesep, argv_files, no_backup,
    pc, file_paths, idx, results, exit_code,
    path, backup, original_content, block_count, cleaned_content, retval,
    fs0, overwritten, backup_failed, calls, outcomes

cvars == <<content, count, cleaned, deleted, result, again, cpc>>
envvars == <<linesep, argv_files, no_backup>>
mainvars == <<file_paths, idx, results, exit_code>>
callvars == <<path, original_content, block_count, cleaned_content, retval,
              fs0, overwritten, backup_failed>>
logvars == <<calls, outcomes>>
vars == <<cvars, fs, envvars, pc, backup, mainvars, callvars, logvars>>

\* The values of the variables a specification does not use.
IdleContent ==
    /\ content = << >> /\ count = 0 /\ cleaned = << >> /\ deleted = 0
    /\ result = << >> /\ again = << >> /\ cpc = "off"

IdleMain ==
    /\ file_paths = << >> /\ idx = 0
    /\ results = [success |-> 0, failed |-> 0, files |-> << >>]
    /\ exit_code = -1

IdleCall ==
    /\ path = None /\ original_content = << >> /\ block_count = -1
    /\ cleaned_content = << >> /\ retval = FALSE
    /\ fs0 = fs /\ overwritten = FALSE /\ backup_failed = FALSE

---------------------------------------------------------------------------
\* The two pure operations on bounded inputs.

InitContent ==
    /\ content \in Inputs
    /\ count = 0
    /\ cleaned = << >>
    /\ deleted = 0
    /\ result = << >>
    /\ again = << >>
    /\ cpc = "start"
    /\ fs = [p \in AllPaths |-> NoFile]
    /\ linesep = <<NL>> /\ argv_files = << >> /\ no_backup = FALSE
    /\ pc = "off" /\ backup = TRUE
    /\ IdleMain /\ IdleCall
    /\ calls = << >> /\ outcomes = << >>

\* count_blocks(content)
CountBlocks ==
    /\ cpc = "start"
    /\ count' = count_blocks(content)
    /\ cpc' = "counted"
    /\ UNCHANGED <<content, cleaned, deleted, result, again>>
    /\ UNCHANGED <<fs, envvars, pc, backup, mainvars, callvars, logvars>>

\* clean_content(content); cleaned is the local after the first re.sub and
\* deleted the number of replacements that re.sub made.
CleanContent ==
    /\ cpc = "counted"
    /\ cleaned' = ReSubFull(content)[1]
    /\ deleted' = ReSubFull(content)[2]
    /\ result' = clean_content(content)
    /\ cpc' = "cleaned"
    /\ UNCHANGED <<content, count, again>>
    /\ UNCHANGED <<fs, envvars, pc, backup, mainvars, callvars, logvars>>

\* clean_content applied to its own result
CleanAgain ==
    /\ cpc = "cleaned"
    /\ again' = clean_content(result)
    /\ cpc' = "done"
    /\ UNCHANGED <<content, count, cleaned, deleted, result>>
    /\ UNCHANGED <<fs, envvars, pc, backup, mainvars, callvars, logvars>>

NextContent == CountBlocks \/ CleanContent \/ CleanAgain

SpecContent == InitContent /\ [][NextContent]_vars

---------------------------------------------------------------------------
\* The command line tool: main, clean_multiple_files, clean_file.

Init ==
    /\ IdleContent
    /\ \E f \in [Paths -> InitialFiles] :
           fs = [p \in AllPaths |-> IF p \in Paths THEN f[p] ELSE NoFile]
    /\ linesep \in LineSeps
    /\ argv_files \in PathLists(MaxFiles)
    /\ no_backup \in BOOLEAN
    /\ pc = "main" /\ backup = TRUE
    /\ IdleMain /\ IdleCall
    /\ calls = << >> /\ outcomes = << >>

\* Entry of clean_file(p, backup): the locals of the call are fresh.
EnterCleanFile(p) ==
    /\ path' = p
    /\ original_content' = << >>
    /\ block_count' = -1
    /\ cleaned_content' = << >>
    /\ retval' = FALSE
    /\ fs0' = fs
    /\ overwritten' = FALSE
    /\ backup_failed' = FALSE
    /\ calls' = Append(calls, p)
    /\ pc' = "validate"

\* main: files given on the command line
MainArgs ==
    /\ pc = "main"
    /\ argv_files # << >>
    /\ file_paths' = argv_files
    /\ backup' = ~no_backup
    /\ pc' = "process"
    /\ UNCHANGED <<cvars, fs, envvars, idx, results, exit_code, callvars,
                   logvars>>

\* main: no file given, interactive_mode asks for one
MainInteractive ==
    /\ pc = "main"
    /\ argv_files = << >>
    /\ \E typed \in Typed :
           LET file_path == interactive_mode(typed)
           IN  IF file_path = None
               THEN /\ exit_code' = 0
                    /\ pc' = "exit"
                    /\ UNCHANGED <<file_paths, backup>>
               ELSE /\ file_paths' = <<file_path>>
                    /\ backup' = ~no_backup
                    /\ pc' = "process"
                    /\ UNCHANGED exit_code
    /\ UNCHANGED <<cvars, fs, envvars, idx, results, callvars, logvars>>

\* main: one file, clean_file is called directly
CallSingle ==
    /\ pc = "process"
    /\ Len(file_paths) = 1
    /\ EnterCleanFile(file_paths[1])
    /\ UNCHANGED <<cvars, fs, envvars, backup, mainvars, outcomes>>

\* main: several files, clean_multiple_files starts
CallMultiple ==
    /\ pc = "process"
    /\ Len(file_paths) # 1
    /\ results' = [success |-> 0, failed |-> 0, files |-> << >>]
    /\ idx' = 1
    /\ pc' = "loop"
    /\ UNCHANGED <<cvars, fs, envvars, backup, file_paths, exit_code,
                   callvars, logvars>>

\* clean_multiple_files: the next file of the loop
LoopCall ==
    /\ pc = "loop"
    /\ idx <= Len(file_paths)
    /\ EnterCleanFile(file_paths[idx])
    /\ UNCHANGED <<cvars, fs, envvars, backup, mainvars, outcomes>>

\* clean_multiple_files returns; main prints the summary and exits
LoopEnd ==
    /\ pc = "loop"
    /\ idx > Len(file_paths)
    /\ exit_code' = IF results.failed = 0 THEN 0 ELSE 1
    /\ pc' = "exit"
    /\ UNCHANGED <<cvars, fs, envvars, backup, file_paths, idx, results,
                   callvars, logvars>>

\* clean_file: validate_file
Validate ==
    /\ pc = "validate"
    /\ IF validate_file(fs, path)
       THEN pc' = "read" /\ UNCHANGED retval
       ELSE pc' = "ret" /\ retval' = FALSE
    /\ UNCHANGED <<cvars, fs, envvars, backup, mainvars, path,
                   original_content, block_count, cleaned_content, fs0,
                   overwritten, backup_failed, logvars>>

\* clean_file: the file is read
ReadFile ==
    /\ pc = "read"
    /\ original_content' = ReadText(fs[path].data)
    /\ pc' = "count"
    /\ UNCHANGED <<cvars, fs, envvars, backup, mainvars, path, block_count,
                   cleaned_content, retval, fs0, overwritten, backup_failed,
                   logvars>>

\* clean_file: open or read raises IOError
ReadError ==
    /\ pc = "read"
    /\ retval' = FALSE
    /\ pc' = "ret"
    /\ UNCHANGED <<cvars, fs, envvars, backup, mainvars, path,
                   original_content, block_count, cleaned_content, fs0,
                   overwritten, backup_failed, logvars>>

\* clean_file: the blocks are counted, the call is over when there is none
CountStep_noReturn ==
    /\ pc = "count"
    /\ block_count' = count_blocks(original_content)
    /\ pc' = IF backup THEN "backup" ELSE "clean"
    /\ UNCHANGED <<cvars, fs, envvars, backup, mainvars, path,
                   original_content, cleaned_content, retval, fs0,
                   overwritten, backup_failed, logvars>>

CountStep ==
    /\ pc = "count"
    /\ block_count' = count_blocks(original_content)
    /\ IF block_count' = 0
       THEN pc' = "ret" /\ retval' = TRUE
       ELSE pc' = (IF backup THEN "backup" ELSE "clean") /\ UNCHANGED retval
    /\ UNCHANGED <<cvars, fs, envvars, backup, mainvars, path,
                   original_content, cleaned_content, fs0,
                   overwritten, backup_failed, logvars>>

\* clean_file: the backup is written
WriteBackup ==
    /\ pc = "backup"
    /\ fs' = [fs EXCEPT ![BackupPath(path)] =
                  RegularFile(WriteText(BackupText(original_content),
                                        linesep))]
    /\ pc' = "clean"
    /\ UNCHANGED <<cvars, envvars, backup, mainvars, callvars, logvars>>

\* clean_file: writing the backup raises IOError, before the file was
\* opened or after open(.., 'w') truncated it
WriteBackupError ==
    /\ pc = "backup"
    /\ \/ UNCHANGED fs
       \/ fs' = [fs EXCEPT ![BackupPath(path)] = RegularFile(<< >>)]
    /\ backup_failed' = TRUE
    /\ retval' = FALSE
    /\ pc' = "ret"
    /\ UNCHANGED <<cvars, envvars, backup, mainvars, path, original_content,
                   block_count, cleaned_content, fs0, overwritten, logvars>>

\* clean_file: clean_content(original_content)
CleanStep ==
    /\ pc = "clean"
    /\ cleaned_content' = clean_content(original_content)
    /\ pc' = "write"
    /\ UNCHANGED <<cvars, fs, envvars, backup, mainvars, path,
                   original_content, block_count, retval, fs0, overwritten,
                   backup_failed, logvars>>

\* clean_file: the cleaned content is written to the file
WriteFile ==
    /\ pc = "write"
    /\ fs' = [fs EXCEPT ![path].data = WriteText(cleaned_content, linesep)]
    /\ overwritten' = TRUE
    /\ retval' = TRUE
    /\ pc' = "ret"
    /\ UNCHANGED <<cvars, envvars, backup, mainvars, path, original_content,
                   block_count, cleaned_content, fs0, backup_failed, logvars>>

\* clean_file: writing the file raises IOError, before the file was opened
\* or after open(.., 'w') truncated it
WriteFileError ==
    /\ pc = "write"
    /\ \/ UNCHANGED <<fs, overwritten>>
       \/ /\ fs' = [fs EXCEPT ![path].data = << >>]
          /\ overwritten' = TRUE
    /\ retval' = FALSE
    /\ pc' = "ret"
    /\ UNCHANGED <<cvars, envvars, backup, mainvars, path, original_content,
                   block_count, cleaned_content, fs0, backup_failed, logvars>>

\* main: clean_file returned, sys.exit(0 if success else 1)
ReturnSingle ==
    /\ pc = "ret"
    /\ Len(file_paths) = 1
    /\ outcomes' = Append(outcomes, retval)
    /\ exit_code' = IF retval THEN 0 ELSE 1
    /\ pc' = "exit"
    /\ UNCHANGED <<cvars, fs, envvars, backup, file_paths, idx, results,
                   callvars, calls>>

\* clean_multiple_files: clean_file returned, the result is recorded
ReturnMultiple ==
    /\ pc = "ret"
    /\ Len(file_paths) # 1
    /\ outcomes' = Append(outcomes, retval)
    /\ results' = RecordResult(results, path, retval)
    /\ idx' = idx + 1
    /\ pc' = "loop"
    /\ UNCHANGED <<cvars, fs, envvars, backup, file_paths, exit_code,
                   callvars, calls>>

Next ==
    \/ MainArgs \/ MainInteractive
    \/ CallSingle \/ CallMultiple \/ LoopCall \/ LoopEnd
    \/ Validate \/ ReadFile \/ ReadError \/ CountStep
    \/ WriteBackup \/ WriteBackupError \/ CleanStep
    \/ WriteFile \/ WriteFileError
    \/ ReturnSingle \/ ReturnMultiple

Spec == Init /\ [][Next]_vars

-----
\* Helpers of the properties.

StartsAt(s) == {i \in 1..Len(s) : LitAt(start_pattern, s, i)}
EndsAt(s) == {i \in 1..Len(s) : LitAt(end_pattern, s, i)}
NoMarkers(s) == StartsAt(s) = {} /\ EndsAt(s) = {}
Suffix(s, n) == SubSeq(s, Len(s) - n + 1, Len(s))
HasTripleBreak(s) == \E i \in 1..Len(s) : LitAt(<<NL, NL, NL>>, s, i)
Cleaned == cpc \in {"cleaned", "done"}

\* str.find(lit, from): the first position >= from where lit occurs, or 0.
Find(lit, s, from) ==
    LET P == {i \in from..Len(s) : LitAt(lit, s, i)}
    IN  IF P = {} THEN 0 ELSE Min(P)

\* The explicit left-to-right scan: next start marker, first end marker
\* beginning at or after its end, drop the span, resume after it.
RECURSIVE ScanDelete(_, _)
ScanDelete(s, pos) ==
    LET st == Find(start_pattern, s, pos)
        en == IF st = 0 THEN 0
              ELSE Find(end_pattern, s, st + Len(start_pattern))
    IN  IF st = 0 \/ en = 0 THEN SubSeq(s, pos, Len(s))
        ELSE SubSeq(s, pos, st - 1) \o ScanDelete(s, en + Len(end_pattern))

\* The number of spans that scan deletes.
RECURSIVE ScanCount(_, _)
ScanCount(s, pos) ==
    LET st == Find(start_pattern, s, pos)
        en == IF st = 0 THEN 0
              ELSE Find(end_pattern, s, st + Len(start_pattern))
    IN  IF st = 0 \/ en = 0 THEN 0
        ELSE 1 + ScanCount(s, en + Len(end_pattern))

\* Number of consecutive line breaks from position j.
RECURSIVE BreakRun(_, _)
BreakRun(s, j) ==
    IF j <= Len(s) /\ s[j] = NL THEN 1 + BreakRun(s, j + 1) ELSE 0

\* Every maximal run of 3 or more line breaks replaced by exactly 2.
RECURSIVE CapBreakRuns(_, _)
CapBreakRuns(s, i) ==
    IF i > Len(s) THEN << >>
    ELSE LET r == BreakRun(s, i)
         IN  IF r = 0 THEN <<s[i]>> \o CapBreakRuns(s, i + 1)
             ELSE IF r >= 3 THEN <<NL, NL>> \o CapBreakRuns(s, i + r)
             ELSE SubSeq(s, i, i + r - 1) \o CapBreakRuns(s, i + r)

\* In every maximal stretch of whitespace that holds 3 or more line breaks,
\* the part from its first to its last line break replaced by 2 line breaks.
RECURSIVE CollapseBlank(_, _)
CollapseBlank(s, i) ==
    IF i > Len(s) THEN << >>
    ELSE LET r == SpaceRun(s, i)
             B == {j \in i..(i + r - 1) : s[j] = NL}
         IN  IF r = 0 THEN <<s[i]>> \o CollapseBlank(s, i + 1)
             ELSE IF Cardinality(B) >= 3
                  THEN SubSeq(s, i, Min(B) - 1) \o <<NL, NL>>
                       \o SubSeq(s, Max(B) + 1, i + r - 1)
                       \o CollapseBlank(s, i + r)
             ELSE SubSeq(s, i, i + r - 1) \o CollapseBlank(s, i + r)

\* Start markers of s with no end marker anywhere after them.
UnmatchedStarts(s) ==
    {p \in StartsAt(s) :
        \A q \in EndsAt(s) : q < p + Len(start_pattern)}

\* Exactly two well-formed blocks with text between them.
TwoBlocks(s) ==
    \E s1, s2 \in StartsAt(s) : \E e1, e2 \in EndsAt(s) :
        /\ StartsAt(s) = {s1, s2} /\ EndsAt(s) = {e1, e2}
        /\ s1 < e1 /\ e1 + Len(end_pattern) < s2 /\ s2 < e2

---------------------------------------------------------------------------
\* C1: after block deletion and before whitespace normalization the text
\* equals the result of the explicit left-to-right scan (next start marker,
\* first end marker at or after its end, span deleted, scan resumed after
\* it); a start marker inside a deleted span is not paired on its own, so
\* "p <start> q <start> r <end> s" leaves "p  s".
Thm_C1 ==
    Cleaned =>
        /\ cleaned = ScanDelete(content, 1)
        /\ content = NestedExample => cleaned = <<"p", " ", " ", "s">>

Wit_C1 ==
    /\ cpc = "cleaned"
    /\ content = NestedExample
    /\ cleaned = <<"p", " ", " ", "s">>

\* C2 (as claimed): clean_content(clean_content(x)) = clean_content(x) for
\* every input x.
CE_C2 == cpc = "done" => again = result

\* C2 (amended): clean_content(clean_content(x)) = clean_content(x) for
\* every input x whose cleaned text holds no complete start..end pair.
Thm_C2 ==
    (cpc = "done" /\ ScanCount(result, 1) = 0) => again = result

Wit_C2 ==
    /\ cpc = "done"
    /\ ScanCount(result, 1) = 0
    /\ deleted >= 1
    /\ StartsAt(result) # {}
    /\ again = result

\* C3: for "a\n<start>\nbad\n<end>\nb" clean_content returns "a\nb" and
\* count_blocks returns 1, and for the docstring's example clean_content
\* returns 'some code\nmore code'.
CE_C3 ==
    Cleaned =>
        /\ content = LineExample => (result = <<"a", NL, "b">> /\ count = 1)
        /\ content = DocExample => (result = DocExampleResult /\ count = 1)

\* C4: count_blocks returns the number of spans clean_content deletes from
\* the same text (the pairs of the nearest-end rule): 0 without markers,
\* with only unmatched start markers or with end markers that all precede
\* every start marker, and 2 for two non-adjacent well-formed blocks.
Thm_C4 ==
    Cleaned =>
        /\ count = deleted
        /\ count = ScanCount(content, 1)
        /\ NoMarkers(content) => count = 0
        /\ EndsAt(content) = {} => count = 0
        /\ (\A e \in EndsAt(content) : \A b \in StartsAt(content) : e < b)
               => count = 0
        /\ TwoBlocks(content) => count = 2

Wit_C4 ==
    /\ cpc = "cleaned"
    /\ TwoBlocks(content)
    /\ count = 2
    /\ deleted = 2

\* C5 (as claimed): without markers the output is the input with every
\* maximal run of 3 or more line breaks replaced by exactly 2, every other
\* character kept (spaces on blank lines included).
CE_C5 ==
    (Cleaned /\ NoMarkers(content)) => result = CapBreakRuns(content, 1)

\* C5 (amended): without markers the output is the input with, in every
\* maximal stretch of whitespace holding 3 or more line breaks, the part
\* from the first to the last line break (spaces and tabs between them
\* included) replaced by exactly 2 line breaks; every other character is
\* kept.
Thm_C5 ==
    (Cleaned /\ NoMarkers(content)) => result = CollapseBlank(content, 1)

Wit_C5 ==
    /\ cpc = "cleaned"
    /\ NoMarkers(content)
    /\ ~HasTripleBreak(content)
    /\ result # content
    /\ result = CollapseBlank(content, 1)

\* C6: the output of clean_content never holds three or more consecutive
\* line breaks, whatever was deleted and however long the runs were.
Thm_C6 == Cleaned => ~HasTripleBreak(result)

Wit_C6 ==
    /\ cpc = "cleaned"
    /\ deleted >= 1
    /\ ~HasTripleBreak(content)
    /\ HasTripleBreak(cleaned)
    /\ ~HasTripleBreak(result)

\* C7 (as claimed): a start marker with no end marker after it, and all
\* text after it, is in the output unchanged, character for character, and
\* count_blocks does not count it.
CE_C7 ==
    Cleaned =>
        \A p \in UnmatchedStarts(content) :
            /\ Len(result) >= Len(content) - p + 1
            /\ Suffix(result, Len(content) - p + 1)
                   = SubSeq(content, p, Len(content))
            /\ count = ScanCount(SubSeq(content, 1, p - 1), 1)

\* C7 (amended): the block deletion of clean_content leaves a start marker
\* with no end marker after it, and all text after it, unchanged, character
\* for character (only the whitespace normalization that follows alters
\* it), and count_blocks does not count it.
Thm_C7 ==
    Cleaned =>
        \A p \in UnmatchedStarts(content) :
            /\ Len(cleaned) >= Len(content) - p + 1
            /\ Suffix(cleaned, Len(content) - p + 1)
                   = SubSeq(content, p, Len(content))
            /\ result = ReSubBlank(cleaned)
            /\ count = ScanCount(SubSeq(content, 1, p - 1), 1)

Wit_C7 ==
    /\ cpc = "cleaned"
    /\ \E p \in UnmatchedStarts(content) :
           /\ Suffix(cleaned, Len(content) - p + 1)
                  = SubSeq(content, p, Len(content))
           /\ HasTripleBreak(SubSeq(content, p, Len(content)))
           /\ ~HasTripleBreak(result)

---------------------------------------------------------------------------
\* Properties of the command line tool (specification Spec).

BackupOfCall == fs[BackupPath(path)]
AllTrue(bs) == \A k \in 1..Len(bs) : bs[k]

\* C8 (as claimed): with backup enabled, whenever the original file has been
\* overwritten the backup file holds exactly the content the file had when
\* clean_file read it; when writing the backup fails the original file is
\* not overwritten and clean_file returns False.
CE_C8 ==
    /\ (backup /\ overwritten) =>
           /\ BackupOfCall.kind = "file"
           /\ BackupOfCall.data = fs0[path].data
    /\ backup_failed =>
           /\ fs[path] = fs0[path]
           /\ pc = "ret" => ~retval

\* C8 (amended): with backup enabled, whenever the original file has been
\* overwritten the backup file holds the text clean_file read (the file's
\* bytes decoded as UTF-8 with replacement, line ends translated), written
\* back as UTF-8 with the platform's line separator: it reads back as the
\* text that was read, and is the same bytes as the file had when these
\* were valid UTF-8 with "\n" line ends on a platform whose separator is
\* "\n"; when writing the backup fails the original file is not overwritten
\* and clean_file returns False.
Thm_C8 ==
    /\ (backup /\ overwritten) =>
           /\ BackupOfCall.kind = "file"
           /\ original_content = ReadText(fs0[path].data)
           /\ ReadText(BackupOfCall.data) = original_content
           /\ BackupOfCall.data = WriteText(original_content, linesep)
           /\ ( /\ linesep = <<NL>>
                /\ \A k \in 1..Len(fs0[path].data) :
                       fs0[path].data[k] \notin {BadByte, CR} )
                  => BackupOfCall.data = fs0[path].data
    /\ backup_failed =>
           /\ fs[path] = fs0[path]
           /\ ~overwritten
           /\ pc = "ret" => ~retval

Wit_C8 ==
    /\ pc = "ret"
    /\ backup /\ overwritten /\ retval
    /\ BackupOfCall.data # fs0[path].data
    /\ ReadText(BackupOfCall.data) = original_content
    /\ fs[path].data # fs0[path].data

\* C9: clean_multiple_files calls clean_file once for every path, in input
\* order, whatever the earlier calls returned; on return there is one
\* result entry per path and success + failed is the number of paths; main
\* exits with code 0 exactly when no file failed.
Thm_C9 ==
    /\ (pc = "loop" /\ idx <= Len(file_paths) + 1) =>
           /\ calls = SubSeq(file_paths, 1, idx - 1)
           /\ Len(outcomes) = idx - 1
    /\ (pc = "exit" /\ Len(file_paths) >= 2) =>
           /\ calls = file_paths
           /\ Len(outcomes) = Len(file_paths)
           /\ Len(results.files) = Len(file_paths)
           /\ \A k \in 1..Len(file_paths) :
                  results.files[k] =
                      [path |-> file_paths[k], success |-> outcomes[k]]
           /\ results.success + results.failed = Len(file_paths)
           /\ results.failed =
                  Cardinality({k \in 1..Len(outcomes) : ~outcomes[k]})
    /\ pc = "exit" =>
           /\ calls = file_paths
           /\ exit_code = 0 <=> AllTrue(outcomes)

Wit_C9 ==
    /\ pc = "exit"
    /\ Len(file_paths) >= 2
    /\ ~outcomes[1]
    /\ outcomes[2]
    /\ results.failed = 1
    /\ exit_code = 1

\* C10: clean_file on a valid file whose content has no matched block
\* returns True and writes nothing: neither the file nor a backup file is
\* created or modified, runs of three or more line breaks stay.
Thm_C10 ==
    (block_count # -1 /\ ScanCount(ReadText(fs0[path].data), 1) = 0) =>
        /\ fs = fs0
        /\ ~overwritten
        /\ pc = "ret" => retval

Wit_C10 ==
    /\ pc = "ret"
    /\ block_count = 0
    /\ retval
    /\ fs = fs0
    /\ BackupOfCall.kind = "none"
    /\ HasTripleBreak(ReadText(fs[path].data))

====
